---- MODULE Spec2Model ----
(***************************************************************************)
(* LS-8 emulator: the extended engine (src/ls8/cpu_additions.py) and the   *)
(* minimal engine (src/ls8/cpu.py), modelled as state machines.  One       *)
(* transition is one iteration of CPU.run: fetch, dispatch, handler.       *)
(* Python semantics that the code relies on are kept: integers are         *)
(* unbounded, a list accepts indices -len..len-1 (negative ones count from *)
(* the end) and raises IndexError otherwise, a dict lookup of a missing    *)
(* key raises KeyError, reading an attribute that was never assigned       *)
(* raises AttributeError.  An exception leaves run(); the state changes    *)
(* made before it was raised stay.                                         *)
(***************************************************************************)
EXTENDS Integers, Sequences, FiniteSets, TLC

(* ---- instruction codes, cpu_additions.py 6..23 (cpu.py 6..19) ---- *)
HLT == 1
LDI == 130
PRN == 71
ADD == 160
SUB == 161
MUL == 162
INC == 101
DEC == 102
PUSH == 69
POP == 70
CALL == 80
RET == 17
CMP == 167
JMP == 84
JEQ == 85
JNE == 86
OOI == 7
LIM == 255

\* the two other values CMP stores in self.flag (EQUAL is stored as HLT)
FL_LESS == 4
FL_GREATER == 2

\* self.sp: the index of the stack-pointer register
SP == 7

\* len(self.ram), len(self.reg)
RamSize == 256
RegCount == 8

(* ---- bounds of the model ---- *)
\* largest magnitude a register may take before the model stops following a run
MaxVal == 70000
\* largest number of lines of output the model follows
MaxOut == 3

(* ---- Python primitives ---- *)

\* x & m on Python integers (two's complement of unbounded width), m >= 0
RECURSIVE BitAnd(_, _)
BitAnd(x, m) ==
    IF m = 0 THEN 0
    ELSE (x % 2) * (m % 2) + 2 * BitAnd(x \div 2, m \div 2)

\* a list of length n accepts index i
InList(i, n) == i >= -n /\ i < n

\* the position a valid list index denotes
Idx(i, n) == IF i < 0 THEN i + n ELSE i

Digit(d) ==
    CASE d = 0 -> "0" [] d = 1 -> "1" [] d = 2 -> "2" [] d = 3 -> "3"
      [] d = 4 -> "4" [] d = 5 -> "5" [] d = 6 -> "6" [] d = 7 -> "7"
      [] d = 8 -> "8" [] d = 9 -> "9"

\* str(n), what print(n) writes for an integer
RECURSIVE ToStr(_)
ToStr(n) ==
    IF n < 0 THEN "-" \o ToStr(-n)
    ELSE IF n < 10 THEN Digit(n)
    ELSE ToStr(n \div 10) \o Digit(n % 10)

HexDigit(d) ==
    CASE d < 10 -> Digit(d)
      [] d = 10 -> "A" [] d = 11 -> "B" [] d = 12 -> "C"
      [] d = 13 -> "D" [] d = 14 -> "E" [] d = 15 -> "F"

\* the upper-case hexadecimal digits of n >= 0
RECURSIVE Hex(_)
Hex(n) == IF n < 16 THEN HexDigit(n) ELSE Hex(n \div 16) \o HexDigit(n % 16)

\* "%02X" % n: at least two characters, zero-padded, a sign counted in
Hex02(n) ==
    IF n < 0 THEN "-" \o Hex(-n)
    ELSE IF n < 16 THEN "0" \o HexDigit(n)
    ELSE Hex(n)

(* ---- state ---- *)
VARIABLES
    program,    \* the lines of the program file, each a sequence of characters
    file_found, \* whether open(filename) finds the file
    argv,       \* sys.argv
    ram, reg, pc, running, flag, out, err,      \* the extended engine
    last, prev,                                 \* the last two iterations of its run loop
    m_ram, m_reg, m_pc, m_running, m_out, m_err, \* the minimal engine
    m_started   \* whether run() of the minimal engine has been called

ext_vars == <<ram, reg, pc, running, flag, out, err, last, prev>>
min_vars == <<m_ram, m_reg, m_pc, m_running, m_out, m_err, m_started>>
env_vars == <<program, file_found, argv>>
vars == <<program, file_found, argv, ram, reg, pc, running, flag, out, err, last, prev,
          m_ram, m_reg, m_pc, m_running, m_out, m_err, m_started>>

\* the extended engine as one value.  flag is <<>> while the attribute self.flag
\* does not exist and <<v>> once CMP has assigned v.  out is the lines written to
\* standard output.  err is "none" or the exception that left run().
cur ==
    [ram |-> ram, reg |-> reg, pc |-> pc, running |-> running,
     flag |-> flag, out |-> out, err |-> err]

\* the minimal engine as one value
m_cur ==
    [ram |-> m_ram, reg |-> m_reg, pc |-> m_pc, running |-> m_running,
     out |-> m_out, err |-> m_err]

\* raise e: the exception propagates out of run()
Raise(s, e) == [s EXCEPT !.err = e]

(* ---- extended engine: cpu_additions.py ---- *)

\* CPU.__init__: the engine after construction
init_cpu ==
    [ram |-> [a \in 0..(RamSize - 1) |-> 0],
     reg |-> [i \in 0..(RegCount - 1) |-> 0],
     pc |-> 0, running |-> TRUE, flag |-> <<>>, out |-> <<>>, err |-> "none"]

\* CPU.__init__ of cpu.py: the same, and no flag either
m_init_cpu ==
    [ram |-> [a \in 0..(RamSize - 1) |-> 0],
     reg |-> [i \in 0..(RegCount - 1) |-> 0],
     pc |-> 0, running |-> TRUE, out |-> <<>>, err |-> "none"]

\* self.ram[address] is defined
AddrOK(address) == InList(address, RamSize)

\* CPU.ram_read, for an address the list accepts
ram_read(s, address) == s.ram[Idx(address, RamSize)]

\* CPU.ram_write, for an address the list accepts
ram_write(s, value, address) == [s EXCEPT !.ram[Idx(address, RamSize)] = value]

\* line.split("#")[0]: the characters before the first "#"
BeforeHash(line) ==
    LET H == {i \in 1..Len(line) : line[i] = "#"}
    IN  IF H = {} THEN line
        ELSE SubSeq(line, 1, (CHOOSE i \in H : \A j \in H : i <= j) - 1)

\* line.strip(): without the blanks at its two ends
Strip(line) ==
    LET K == {i \in 1..Len(line) : line[i] # " "}
    IN  IF K = {} THEN <<>>
        ELSE SubSeq(line, CHOOSE i \in K : \A j \in K : i <= j,
                          CHOOSE i \in K : \A j \in K : i >= j)

\* int(line, 2) returns: over the characters "0", "1", "2", "#" and blank, a
\* stripped line parses when it holds binary digits only
IsBinary(line) == \A i \in 1..Len(line) : line[i] \in {"0", "1"}

\* int(line, 2) for a line of binary digits: no mask, any number of digits;
\* Value(line, n) is the value of its first n digits
RECURSIVE Value(_, _)
Value(line, n) ==
    IF n = 0 THEN 0
    ELSE 2 * Value(line, n - 1) + (IF line[n] = "1" THEN 1 ELSE 0)
int2(line) == Value(line, Len(line))

\* the characters of a line as the text print writes
RECURSIVE Text(_)
Text(line) == IF line = <<>> THEN "" ELSE line[1] \o Text(Tail(line))

\* the for loop of CPU.load (the same in both files).  Blank and comment-only
\* lines are skipped.  The lines left are stored at addresses 0, 1, ... until
\* one stops the loop: a line that is no base-2 integer prints a message and
\* exits (int() is evaluated before the store), and the 257th line raises
\* IndexError at self.ram[256].  The bytes stored before that stay.
load_lines(s, lines) ==
    LET code == SelectSeq([i \in 1..Len(lines) |-> Strip(BeforeHash(lines[i]))],
                          LAMBDA line : line # <<>>)
        Stops == {i \in 1..Len(code) : ~IsBinary(code[i]) \/ ~AddrOK(i - 1)}
        stop == IF Stops = {} THEN Len(code) + 1
                ELSE CHOOSE i \in Stops : \A j \in Stops : i <= j
        s1 == [s EXCEPT !.ram = [a \in 0..(RamSize - 1) |->
                                    IF a + 1 < stop THEN int2(code[a + 1])
                                    ELSE s.ram[a]]]
    IN  IF Stops = {} THEN s1
        ELSE IF ~IsBinary(code[stop])
             THEN Raise([s1 EXCEPT !.out =
                            Append(@, "Invalid number: " \o Text(code[stop]))],
                        "SystemExit")
        ELSE Raise(s1, "IndexError")

\* the line CPU.load prints when len(sys.argv) != 2; loading goes on
usage(s, args) ==
    IF Len(args) # 2
    THEN [s EXCEPT !.out = Append(@, "Usage: cpu.py loaded_program_name.ls8")]
    ELSE s

\* CPU.load of cpu_additions.py: a missing file prints sys.argv[1] (IndexError
\* when sys.argv has no such item) and exits
load(s, lines, found, args) ==
    LET s1 == usage(s, args)
    IN  IF ~found
        THEN IF Len(args) < 2 THEN Raise(s1, "IndexError")
             ELSE Raise([s1 EXCEPT !.out =
                            Append(@, "Could not find file: " \o args[2])],
                        "SystemExit")
        ELSE load_lines(s1, lines)

\* CPU.load of cpu.py: open() raises FileNotFoundError for a missing file
m_load(s, lines, found, args) ==
    LET s1 == usage(s, args)
    IN  IF ~found THEN Raise(s1, "FileNotFoundError")
        ELSE load_lines(s1, lines)

\* self.reg[i] is defined
RegOK(i) == InList(i, RegCount)

\* self.reg[i], for an index the list accepts
reg_get(s, i) == s.reg[Idx(i, RegCount)]

\* CPU.alu
alu(s, op, reg_a, reg_b) ==
    LET a == BitAnd(reg_a, OOI)
        b == BitAnd(reg_b, OOI)
    IN  CASE op = "ADD" -> [s EXCEPT !.reg[a] = s.reg[a] + s.reg[b]]
          [] op = "SUB" -> [s EXCEPT !.reg[a] = s.reg[a] - s.reg[b]]
          [] op = "MUL" -> [s EXCEPT !.reg[a] = s.reg[a] * s.reg[b]]
          [] op = "INC" -> [s EXCEPT !.reg[a] = BitAnd(s.reg[a] + 1, LIM)]
          [] op = "DEC" -> [s EXCEPT !.reg[a] = BitAnd(s.reg[a] - 1, LIM)]
          [] op = "CMP" ->
                IF s.reg[a] = s.reg[b] THEN [s EXCEPT !.flag = <<HLT>>]
                ELSE IF s.reg[a] < s.reg[b] THEN [s EXCEPT !.flag = <<FL_LESS>>]
                ELSE [s EXCEPT !.flag = <<FL_GREATER>>]
          [] OTHER -> Raise(s, "Exception")

\* an ldi that uses its register operand as it comes
ldi_unmasked_index(s, operand_a, operand_b) ==
    IF ~RegOK(operand_a) THEN Raise(s, "IndexError")
    ELSE [s EXCEPT !.reg[Idx(operand_a, RegCount)] = BitAnd(operand_b, LIM),
                   !.pc = s.pc + 3]

\* CPU.ldi
ldi(s, operand_a, operand_b) ==
    LET a == BitAnd(operand_a, OOI)
        b == BitAnd(operand_b, LIM)
    IN  [s EXCEPT !.reg[a] = b, !.pc = s.pc + 3]

\* CPU.print
print(s, operand_a, operand_b) ==
    IF ~RegOK(operand_a) THEN Raise(s, "IndexError")
    ELSE [s EXCEPT !.out = Append(s.out, ToStr(reg_get(s, operand_a))),
                   !.pc = s.pc + 2]

\* a halt that also steps over its own opcode
halt_advancing(s, operand_a, operand_b) ==
    [s EXCEPT !.running = FALSE, !.pc = s.pc + 1]

\* CPU.halt
halt(s, operand_a, operand_b) == [s EXCEPT !.running = FALSE]

\* pc += n unless the call before it raised
Advance(t, n) == IF t.err # "none" THEN t ELSE [t EXCEPT !.pc = t.pc + n]

\* an add that calls the ALU with the name of the subtraction
add_as_subtract(s, operand_a, operand_b) ==
    Advance(alu(s, "SUB", operand_a, operand_b), 3)

\* CPU.add
add(s, operand_a, operand_b) == Advance(alu(s, "ADD", operand_a, operand_b), 3)

\* CPU.subtract
subtract(s, operand_a, operand_b) == Advance(alu(s, "SUB", operand_a, operand_b), 3)

\* a multiply that keeps the low byte of the product
multiply_masked(s, operand_a, operand_b) ==
    LET t == Advance(alu(s, "MUL", operand_a, operand_b), 3)
    IN  [t EXCEPT !.reg[BitAnd(operand_a, OOI)] = BitAnd(@, LIM)]

\* CPU.multiply
multiply(s, operand_a, operand_b) == Advance(alu(s, "MUL", operand_a, operand_b), 3)

\* a compare that passes its operands to the ALU in the other order
compare_swapped(s, operand_a, operand_b) ==
    Advance(alu(s, "CMP", operand_b, operand_a), 3)

\* CPU.compare
compare(s, operand_a, operand_b) == Advance(alu(s, "CMP", operand_a, operand_b), 3)

\* CPU.jump
jump(s, operand_a, operand_b) ==
    IF ~RegOK(operand_a) THEN Raise(s, "IndexError")
    ELSE [s EXCEPT !.pc = reg_get(s, operand_a)]

\* CPU.jump_if_equal
jump_if_equal(s, operand_a, operand_b) ==
    IF s.flag = <<>> THEN Raise(s, "AttributeError")
    ELSE IF s.flag[1] = HLT
         THEN IF ~RegOK(operand_a) THEN Raise(s, "IndexError")
              ELSE [s EXCEPT !.pc = reg_get(s, operand_a)]
         ELSE [s EXCEPT !.pc = s.pc + 2]

\* CPU.jump_if_not_equal
jump_if_not_equal(s, operand_a, operand_b) ==
    IF s.flag = <<>> THEN Raise(s, "AttributeError")
    ELSE IF s.flag[1] # HLT
         THEN IF ~RegOK(operand_a) THEN Raise(s, "IndexError")
              ELSE [s EXCEPT !.pc = reg_get(s, operand_a)]
         ELSE [s EXCEPT !.pc = s.pc + 2]

\* a push that stores at the stack pointer and decrements it afterwards
push_post_decrement(s, operand_a, operand_b) ==
    IF ~RegOK(operand_a) THEN Raise(s, "IndexError")
    ELSE IF ~AddrOK(s.reg[SP]) THEN Raise(s, "IndexError")
    ELSE LET s2 == ram_write(s, reg_get(s, operand_a), s.reg[SP])
         IN  [s2 EXCEPT !.reg[SP] = s.reg[SP] - 1, !.pc = s.pc + 2]

\* CPU.push: the stack pointer is decremented before anything can raise
push(s, operand_a, operand_b) ==
    LET s1 == [s EXCEPT !.reg[SP] = s.reg[SP] - 1]
    IN  IF ~RegOK(operand_a) THEN Raise(s1, "IndexError")
        ELSE IF ~AddrOK(s1.reg[SP]) THEN Raise(s1, "IndexError")
        ELSE LET s2 == ram_write(s1, reg_get(s1, operand_a), s1.reg[SP])
             IN  [s2 EXCEPT !.pc = s.pc + 2]

\* a pop that leaves the stack pointer where it was
pop_keeping_sp(s, operand_a, operand_b) ==
    IF ~AddrOK(s.reg[SP]) THEN Raise(s, "IndexError")
    ELSE IF ~RegOK(operand_a) THEN Raise(s, "IndexError")
    ELSE [s EXCEPT !.reg[Idx(operand_a, RegCount)] = ram_read(s, s.reg[SP]),
                   !.pc = s.pc + 2]

\* CPU.pop: the right-hand side is read first, then the register is stored,
\* then the stack pointer is incremented
pop(s, operand_a, operand_b) ==
    IF ~AddrOK(s.reg[SP]) THEN Raise(s, "IndexError")
    ELSE IF ~RegOK(operand_a) THEN Raise(s, "IndexError")
    ELSE LET s1 == [s EXCEPT !.reg[Idx(operand_a, RegCount)] = ram_read(s, s.reg[SP])]
         IN  [s1 EXCEPT !.reg[SP] = s1.reg[SP] + 1, !.pc = s.pc + 2]

\* CPU.call
call(s, operand_a, operand_b) ==
    LET s1 == [s EXCEPT !.reg[SP] = s.reg[SP] - 1]
    IN  IF ~AddrOK(s1.reg[SP]) THEN Raise(s1, "IndexError")
        ELSE LET s2 == ram_write(s1, s.pc + 2, s1.reg[SP])
             IN  IF ~RegOK(operand_a) THEN Raise(s2, "IndexError")
                 ELSE [s2 EXCEPT !.pc = reg_get(s2, operand_a)]

\* CPU._return
_return(s, operand_a, operand_b) ==
    IF ~AddrOK(s.reg[SP]) THEN Raise(s, "IndexError")
    ELSE [s EXCEPT !.pc = ram_read(s, s.reg[SP]), !.reg[SP] = s.reg[SP] + 1]

\* the keys of self.branchtable
branchtable ==
    {HLT, LDI, PRN, ADD, SUB, MUL, PUSH, POP, CALL, RET, CMP, JEQ, JNE, JMP}

\* while self.running: the loop goes on while running is set and nothing was raised
loop_condition(s) == s.running /\ s.err = "none"

\* the three ram_read calls of an iteration all succeed
FetchOK(s) == AddrOK(s.pc) /\ AddrOK(s.pc + 1) /\ AddrOK(s.pc + 2)

\* IR, operand_a, operand_b of the iteration that starts in s
IR(s) == ram_read(s, s.pc)
fetch_a(s) == ram_read(s, s.pc + 1)
fetch_b(s) == ram_read(s, s.pc + 2)

\* CPU.trace: the three reads are made before anything is printed; the line
\* is "TRACE: pc | ir a b |" and the eight registers, in hexadecimal
trace(s) ==
    IF ~FetchOK(s) THEN Raise(s, "IndexError")
    ELSE [s EXCEPT !.out = Append(@,
            "TRACE: " \o Hex02(s.pc) \o " | " \o Hex02(IR(s)) \o " "
            \o Hex02(fetch_a(s)) \o " " \o Hex02(fetch_b(s)) \o " |"
            \o " " \o Hex02(s.reg[0]) \o " " \o Hex02(s.reg[1])
            \o " " \o Hex02(s.reg[2]) \o " " \o Hex02(s.reg[3])
            \o " " \o Hex02(s.reg[4]) \o " " \o Hex02(s.reg[5])
            \o " " \o Hex02(s.reg[6]) \o " " \o Hex02(s.reg[7]))]

(* ---- minimal engine: cpu.py ---- *)

\* CPU.trace of cpu.py: the same method
m_trace(s) == trace(s)


\* CPU.alu of cpu.py: the register operands index self.reg as they are.  op is
\* the text of the value the caller passes: the callers in run pass the names
\* "ADD", "SUB", "MUL"; push and pop pass the opcode constants DEC and INC,
\* integers, which equal none of the names.
m_alu(s, op, reg_a, reg_b) ==
    CASE op = "ADD" ->
            IF ~RegOK(reg_a) \/ ~RegOK(reg_b) THEN Raise(s, "IndexError")
            ELSE [s EXCEPT !.reg[Idx(reg_a, RegCount)] =
                               reg_get(s, reg_a) + reg_get(s, reg_b)]
      [] op = "SUB" ->
            IF ~RegOK(reg_a) \/ ~RegOK(reg_b) THEN Raise(s, "IndexError")
            ELSE [s EXCEPT !.reg[Idx(reg_a, RegCount)] =
                               reg_get(s, reg_a) - reg_get(s, reg_b)]
      [] op = "MUL" ->
            IF ~RegOK(reg_a) \/ ~RegOK(reg_b) THEN Raise(s, "IndexError")
            ELSE [s EXCEPT !.reg[Idx(reg_a, RegCount)] =
                               reg_get(s, reg_a) * reg_get(s, reg_b)]
      [] op = "INC" ->
            IF ~RegOK(reg_a) THEN Raise(s, "IndexError")
            ELSE [s EXCEPT !.reg[Idx(reg_a, RegCount)] =
                               BitAnd(reg_get(s, reg_a) + 1, LIM)]
      [] op = "DEC" ->
            IF ~RegOK(reg_a) THEN Raise(s, "IndexError")
            ELSE [s EXCEPT !.reg[Idx(reg_a, RegCount)] =
                               BitAnd(reg_get(s, reg_a) - 1, LIM)]
      [] OTHER -> Raise(s, "Exception")

\* CPU.ldi of cpu.py
m_ldi(s, r, val) == [s EXCEPT !.reg[BitAnd(r, OOI)] = BitAnd(val, LIM)]

\* CPU.push of cpu.py
m_push(s, r) ==
    LET s1 == m_alu(s, ToStr(DEC), 7, 0)
    IN  IF s1.err # "none" THEN s1
        ELSE IF ~AddrOK(s1.reg[7]) THEN Raise(s1, "IndexError")
        ELSE ram_write(s1, s1.reg[BitAnd(r, OOI)], s1.reg[7])

\* CPU.pop of cpu.py
m_pop(s, r) ==
    IF ~AddrOK(s.reg[7]) THEN Raise(s, "IndexError")
    ELSE m_alu(m_ldi(s, BitAnd(r, OOI), ram_read(s, s.reg[7])), ToStr(INC), 7, 0)

\* one iteration of CPU.run of cpu.py, after a successful fetch
m_run(s) ==
    LET ir == IR(s)
        a  == fetch_a(s)
        b  == fetch_b(s)
    IN  IF ir = HLT THEN [s EXCEPT !.running = FALSE]
        ELSE IF ir = LDI THEN
            IF ~RegOK(a) THEN Raise(s, "IndexError")
            ELSE [s EXCEPT !.reg[Idx(a, RegCount)] = b, !.pc = s.pc + 3]
        ELSE IF ir = PRN THEN
            IF ~RegOK(a) THEN Raise(s, "IndexError")
            ELSE [s EXCEPT !.out = Append(s.out, ToStr(reg_get(s, a))),
                           !.pc = s.pc + 2]
        ELSE IF ir = ADD THEN Advance(m_alu(s, "ADD", a, b), 3)
        ELSE IF ir = SUB THEN Advance(m_alu(s, "SUB", a, b), 3)
        ELSE IF ir = MUL THEN Advance(m_alu(s, "MUL", a, b), 3)
        ELSE IF ir = PUSH THEN m_push(s, a)
        ELSE IF ir = POP THEN m_pop(s, a)
        ELSE [s EXCEPT !.out = Append(s.out, "Instruction not valid")]

\* the opcodes the if-chain of run in cpu.py recognises
m_known == {HLT, LDI, PRN, ADD, SUB, MUL, PUSH, POP}

(* ---- the programs the model loads ---- *)

\* prog, zero-filled up to address t, then bytes from address t on (t >= Len(prog))
Place(prog, t, bytes) ==
    [i \in 1..(t + Len(bytes)) |->
        IF i <= Len(prog) THEN prog[i]
        ELSE IF i > t THEN bytes[i - t]
        ELSE 0]

\* n copies of the instruction LDI R0,0
RECURSIVE Fill(_)
Fill(n) == IF n = 0 THEN <<>> ELSE <<LDI, 0, 0>> \o Fill(n - 1)

Regs == 0..(RegCount - 1)
StackTops == {0, 1, 9, 10, 244, 255}
Vals == {0, 5, 70, 255}
Targets == {9, 100, 253, 254, 255}

\* LDI R0,5; PUSH R0; LDI R0,0; POP R0; PRN R0; HLT
ProgPushPop == <<LDI, 0, 5, PUSH, 0, LDI, 0, 0, POP, 0, PRN, 0, HLT>>

\* LDI R0,3; LDI R2,loop; loop: DEC R0; CMP R0,R1; JNE R2; PRN R0; HLT
ProgDecLoop ==
    <<LDI, 0, 3, LDI, 2, 6, DEC, 0, CMP, 0, 1, JNE, 2, PRN, 0, HLT>>

\* LDI R0,8; LDI R1,9; ADD R0,R1; PRN R0; HLT
ProgAdd == <<LDI, 0, 8, LDI, 1, 9, ADD, 0, 1, PRN, 0, HLT>>

\* set SP, set a register, PUSH it, POP into a register, halt
StackProgs ==
    { <<LDI, SP, s, LDI, r, v, PUSH, r, POP, r2, HLT>> :
        s \in StackTops, r \in Regs, v \in Vals, r2 \in Regs }

\* set SP, set a register to a target, CALL it, halt; a RET sits at the target
CallProgs ==
    { Place(<<LDI, SP, s, LDI, r, t, CALL, r, HLT>>, t, <<RET>>) :
        s \in StackTops, r \in Regs, t \in Targets }

\* CALL R7 at address 15: the call stores the return address 17, the code of
\* RET, in the cell it then jumps to
CallSpProgs ==
    { Fill(4) \o <<LDI, SP, s, CALL, SP, HLT>> : s \in StackTops \ {0} }

\* a byte the branch table does not hold, first or after an instruction
UnknownProgs ==
    { <<b>> : b \in {0, INC, DEC, 255} } \cup
    { <<LDI, 0, 5, PRN, 0, b>> : b \in {0, INC, DEC, 255} }

\* compare two registers, then jump through R2 to PRN R0; HLT at 17
CmpProgs ==
    { <<LDI, 0, x, LDI, 1, y, LDI, 2, 17, CMP, a, b, j, r, HLT, 0, 0, PRN, 0, HLT>> :
        x \in {0, 1, 255}, y \in {0, 1, 255},
        a \in {0, 1, 8}, b \in {0, 1, 9}, j \in {JEQ, JNE, JMP}, r \in {2, 8, 254} }

\* a conditional jump in an engine that has not compared yet
FreshJumpProgs ==
    { <<LDI, 2, 6, j, r, HLT, PRN, 0, HLT>> : j \in {JEQ, JNE, JMP}, r \in {2, 8} }

\* arithmetic on two loaded registers, then print
ArithProgs ==
    { <<LDI, 0, x, LDI, 1, y, op, a, b, PRN, r, HLT>> :
        x \in {0, 1, 200, 255}, y \in {0, 1, 200, 255},
        op \in {ADD, SUB, MUL}, a \in {0, 1, 8}, b \in {0, 1}, r \in {0, 1, 8} }

\* jump to an instruction at the top of memory, or below address 0
EdgeProgs ==
    { Place(<<LDI, 0, t, JMP, 0>>, t, <<HLT>>) : t \in {252, 253, 254, 255} } \cup
    { Place(<<LDI, 0, t, JMP, 0>>, t, <<PRN, 0>>) : t \in {252, 253, 254} } \cup
    { Place(<<LDI, 0, t, JMP, 0>>, t, <<LDI, 1, 1>>) : t \in {252, 253} } \cup
    { Place(<<LDI, 0, d, SUB, 1, 0, JMP, 1>>, 255, <<HLT>>) : d \in {1, 2, 255} } \cup
    { <<LDI, 0, 200, ADD, 0, 0, JMP, 0>> }

\* POP from a chosen stack pointer, once or twice
PopProgs ==
    { <<LDI, SP, s, POP, r, PRN, r, HLT>> : s \in {0, 1, 3, 255}, r \in {0, SP, 9} } \cup
    { <<LDI, SP, 255, POP, 0, POP, 1, HLT>> }

\* a program that fills memory: instructions up to the last cells
FullProgs ==
    { Fill(84) \o <<PRN, 0>>, Fill(84) \o <<HLT>>, Fill(85) }

Programs ==
    {ProgPushPop, ProgDecLoop, ProgAdd} \cup StackProgs \cup CallProgs \cup
    CallSpProgs \cup UnknownProgs \cup CmpProgs \cup FreshJumpProgs \cup
    ArithProgs \cup EdgeProgs \cup PopProgs \cup FullProgs

(* ---- the program files and command lines the model loads ---- *)

\* the binary literal of a byte value, eight digits or more
RECURSIVE Bits(_, _)
Bits(v, n) ==
    IF n <= 0 /\ v = 0 THEN <<>>
    ELSE Append(Bits(v \div 2, n - 1), Digit(v % 2))

\* a program file with one eight-digit literal per line
Lines(bytes) == [i \in 1..Len(bytes) |-> Bits(bytes[i], 8)]

\* sys.argv of "python ls8.py prog.ls8", of a call without the file name and
\* of a call with one argument too many
ArgvRun == <<"ls8.py", "prog.ls8">>
ArgvBare == <<"ls8.py">>
ArgvExtra == <<"ls8.py", "prog.ls8", "extra">>

\* what CPU.load reads: the lines of the file, whether the file is there, sys.argv
Loaded(lines, args) == [lines |-> lines, found |-> TRUE, argv |-> args]

\* ProgAdd with a comment line, a blank line, a comment after the LDI opcode
\* and blanks around a literal
CommentedAdd ==
    <<<<"#", " ", "1">>, <<>>, Bits(LDI, 8) \o <<" ", "#", "2">>>> \o
    Lines(<<0, 8, LDI, 1, 9, ADD, 0>>) \o
    <<<<" ">> \o Bits(1, 8) \o <<" ">>>> \o Lines(<<PRN, 0, HLT>>)

\* files with a line that is no binary literal: "12" first, "12" after an
\* LDI, a literal with a blank inside
MalformedFiles ==
    { <<<<"1", "2">>>> \o Lines(<<HLT>>),
      Lines(<<LDI, 0, 8>>) \o <<<<"1", "2">>>> \o Lines(<<PRN, 0, HLT>>),
      Lines(<<LDI, 0, 8>>) \o <<<<"1", " ", "0">>>> \o Lines(<<PRN, 0, HLT>>) }

\* files of more than 256 bytes
LongFiles ==
    { Lines(Fill(85) \o <<HLT, HLT>>), [i \in 1..300 |-> Bits(HLT, 8)] }

\* the loads other than a well-formed file named on a two-item command line
OddLoads ==
    { Loaded(Lines(p), a) : p \in {ProgAdd, ProgPushPop}, a \in {ArgvBare, ArgvExtra} }
    \cup { [lines |-> <<>>, found |-> FALSE, argv |-> a] :
              a \in {ArgvBare, ArgvRun, ArgvExtra} }
    \cup { Loaded(f, a) : f \in MalformedFiles, a \in {ArgvRun, ArgvExtra} }
    \cup { Loaded(f, ArgvRun) : f \in LongFiles \cup {CommentedAdd} }

Loads == { Loaded(Lines(p), ArgvRun) : p \in Programs } \cup OddLoads

(* ---- the state machines ---- *)

\* what the run loop last did: nothing yet, a failed fetch, a failed dispatch,
\* or a handler called with (ir, a, b) in state s
NoStep(s) == [step |-> "none", ir |-> 0, a |-> 0, b |-> 0, s |-> s]

\* both engines constructed and their load called on the lines ld
LoadBoth(ld) ==
    /\ program = ld.lines /\ file_found = ld.found /\ argv = ld.argv
    /\ \E e \in {load(init_cpu, ld.lines, ld.found, ld.argv)} :
          /\ ram = e.ram /\ reg = e.reg /\ pc = e.pc /\ running = e.running
          /\ flag = e.flag /\ out = e.out /\ err = e.err
          /\ last = NoStep(e) /\ prev = NoStep(e)
    /\ \E m \in {m_load(m_init_cpu, ld.lines, ld.found, ld.argv)} :
          /\ m_ram = m.ram /\ m_reg = m.reg /\ m_pc = m.pc
          /\ m_running = m.running /\ m_out = m.out /\ m_err = m.err
    /\ m_started = FALSE

Init == \E ld \in Loads : LoadBoth(ld)

\* the model follows a run while its numbers stay within the bounds
Bounded(t) ==
    /\ \A i \in Regs : t.reg[i] <= MaxVal /\ t.reg[i] >= -MaxVal
    /\ Len(t.out) <= MaxOut

\* the extended engine moves to t; the iteration is recorded
ExtMoves(t, step) ==
    /\ Bounded(t)
    /\ ram' = t.ram /\ reg' = t.reg /\ pc' = t.pc /\ running' = t.running
    /\ flag' = t.flag /\ out' = t.out /\ err' = t.err
    /\ prev' = last
    /\ last' = [step |-> step,
                ir |-> IF step = "fetch" THEN 0 ELSE IR(cur),
                a |-> IF step = "fetch" THEN 0 ELSE fetch_a(cur),
                b |-> IF step = "fetch" THEN 0 ELSE fetch_b(cur),
                s |-> cur]

\* an iteration of the extended engine alone
Become(t, step) == ExtMoves(t, step) /\ UNCHANGED <<env_vars, min_vars>>

\* the iteration dispatches opcode op
Dispatch(op) == loop_condition(cur) /\ FetchOK(cur) /\ IR(cur) = op

\* one of the reads self.ram_read(self.pc), (self.pc + 1), (self.pc + 2) raises
FetchError ==
    /\ loop_condition(cur) /\ ~FetchOK(cur)
    /\ Become(Raise(cur, "IndexError"), "fetch")

\* self.branchtable[IR] raises: IR is not a key
InvalidOpcode ==
    /\ loop_condition(cur) /\ FetchOK(cur) /\ IR(cur) \notin branchtable
    /\ Become(Raise(cur, "KeyError"), "dispatch")

Halt == Dispatch(HLT) /\ Become(halt(cur, fetch_a(cur), fetch_b(cur)), "exec")
Ldi == Dispatch(LDI) /\ Become(ldi(cur, fetch_a(cur), fetch_b(cur)), "exec")
Prn == Dispatch(PRN) /\ Become(print(cur, fetch_a(cur), fetch_b(cur)), "exec")
Add == Dispatch(ADD) /\ Become(add(cur, fetch_a(cur), fetch_b(cur)), "exec")
Subtract == Dispatch(SUB) /\ Become(subtract(cur, fetch_a(cur), fetch_b(cur)), "exec")
Multiply == Dispatch(MUL) /\ Become(multiply(cur, fetch_a(cur), fetch_b(cur)), "exec")
Push == Dispatch(PUSH) /\ Become(push(cur, fetch_a(cur), fetch_b(cur)), "exec")
Pop == Dispatch(POP) /\ Become(pop(cur, fetch_a(cur), fetch_b(cur)), "exec")
Call == Dispatch(CALL) /\ Become(call(cur, fetch_a(cur), fetch_b(cur)), "exec")
Return == Dispatch(RET) /\ Become(_return(cur, fetch_a(cur), fetch_b(cur)), "exec")
Compare == Dispatch(CMP) /\ Become(compare(cur, fetch_a(cur), fetch_b(cur)), "exec")
JumpIfEqual ==
    Dispatch(JEQ) /\ Become(jump_if_equal(cur, fetch_a(cur), fetch_b(cur)), "exec")
JumpIfNotEqual ==
    Dispatch(JNE) /\ Become(jump_if_not_equal(cur, fetch_a(cur), fetch_b(cur)), "exec")
Jump == Dispatch(JMP) /\ Become(jump(cur, fetch_a(cur), fetch_b(cur)), "exec")

\* CPU.run of cpu_additions.py: one iteration
Next ==
    \/ FetchError \/ InvalidOpcode
    \/ Halt \/ Ldi \/ Prn \/ Add \/ Subtract \/ Multiply
    \/ Push \/ Pop \/ Call \/ Return
    \/ Compare \/ JumpIfEqual \/ JumpIfNotEqual \/ Jump

Spec == Init /\ [][Next]_vars

\* the minimal engine moves to t
MinMoves(t) ==
    /\ Bounded(t)
    /\ m_ram' = t.ram /\ m_reg' = t.reg /\ m_pc' = t.pc
    /\ m_running' = t.running /\ m_out' = t.out /\ m_err' = t.err
    /\ m_started' = TRUE

\* an iteration of the minimal engine alone
MinBecome(t) == MinMoves(t) /\ UNCHANGED <<env_vars, ext_vars>>

MinDispatch(op) == loop_condition(m_cur) /\ FetchOK(m_cur) /\ IR(m_cur) = op

MinFetchError ==
    /\ loop_condition(m_cur) /\ ~FetchOK(m_cur)
    /\ MinBecome(Raise(m_cur, "IndexError"))

\* the else branch of run in cpu.py: a line is printed, nothing else changes
MinInvalid ==
    /\ loop_condition(m_cur) /\ FetchOK(m_cur) /\ IR(m_cur) \notin m_known
    /\ MinBecome(m_run(m_cur))

MinHalt == MinDispatch(HLT) /\ MinBecome(m_run(m_cur))
MinLdi == MinDispatch(LDI) /\ MinBecome(m_run(m_cur))
MinPrn == MinDispatch(PRN) /\ MinBecome(m_run(m_cur))
MinAdd == MinDispatch(ADD) /\ MinBecome(m_run(m_cur))
MinSub == MinDispatch(SUB) /\ MinBecome(m_run(m_cur))
MinMul == MinDispatch(MUL) /\ MinBecome(m_run(m_cur))
MinPush == MinDispatch(PUSH) /\ MinBecome(m_run(m_cur))
MinPop == MinDispatch(POP) /\ MinBecome(m_run(m_cur))

\* CPU.run of cpu.py: one iteration
NextMin ==
    \/ MinFetchError \/ MinInvalid
    \/ MinHalt \/ MinLdi \/ MinPrn \/ MinAdd \/ MinSub \/ MinMul
    \/ MinPush \/ MinPop

SpecMin == Init /\ [][NextMin]_vars

(* ---- a caller that also prints traces ---- *)

\* cpu.trace() called by the code that owns the engine.  run() does not call
\* it (the call in the loop is commented out) and does not return before the
\* loop has ended, so a trace is printed before run() is called or after it
\* has returned or raised.  Only standard output changes.
Trace ==
    /\ last.step = "none" \/ ~loop_condition(cur)
    /\ \E t \in {trace(cur)} :
          /\ Len(t.out) <= MaxOut
          /\ out' = t.out /\ err' = t.err
    /\ UNCHANGED <<env_vars, min_vars, ram, reg, pc, running, flag, last, prev>>

MinTrace ==
    /\ ~m_started \/ ~loop_condition(m_cur)
    /\ \E t \in {m_trace(m_cur)} :
          /\ Len(t.out) <= MaxOut
          /\ m_out' = t.out /\ m_err' = t.err
    /\ UNCHANGED <<env_vars, ext_vars, m_ram, m_reg, m_pc, m_running, m_started>>

\* load, then any number of traces around one call of run
NextTraced == Next \/ Trace
SpecTraced == Init /\ [][NextTraced]_vars
NextMinTraced == NextMin \/ MinTrace
SpecMinTraced == Init /\ [][NextMinTraced]_vars

(* ---- properties ---- *)

\* the iteration recorded in r called the handler of opcode op
Ran(r, op) == r.step = "exec" /\ r.ir = op

\* the lines of standard output hold line
Printed(lines, line) == \E i \in 1..Len(lines) : lines[i] = line

\* C1: in the extended engine every register, the stack pointer included,
\* holds a value in 0..255 in every reachable state.
C1_RegistersAreBytes == \A i \in Regs : reg[i] >= 0 /\ reg[i] <= LIM

\* C2: in the extended engine the program counter is an address in 0..255
\* whenever the run loop is about to fetch.
C2_PcIsAddress == loop_condition(cur) => (pc >= 0 /\ pc <= RamSize - 1)

\* PUSH prev.a ran from a stack pointer in 0..255 and POP last.a ran right
\* after it, both with a register operand in 0..7 and both to completion
PushThenPop ==
    /\ Ran(prev, PUSH) /\ Ran(last, POP) /\ err = "none"
    /\ prev.a \in Regs /\ last.a \in Regs
    /\ prev.s.reg[SP] >= 0 /\ prev.s.reg[SP] <= LIM

\* the stack pointer is back at its value before the PUSH and the popped
\* register holds what the pushed register held before the PUSH
PushPopRestores ==
    /\ reg[SP] = prev.s.reg[SP]
    /\ reg[last.a] = prev.s.reg[prev.a]

\* C3 as stated: PUSH r then POP r' restores SP and copies reg[r] to reg[r'],
\* for every r and r' in 0..7, register 7 included.
C3_PushPopAnyRegister == PushThenPop => PushPopRestores

\* C3 as amended: PUSH r then POP r' restores SP and copies reg[r] to reg[r']
\* from any stack pointer in 0..255 when r and r' are both in 0..6, and also
\* when both are 7; not when exactly one of them is the stack-pointer register.
C3_PushPopNotMixingSp ==
    (PushThenPop /\ ((prev.a = SP) <=> (last.a = SP))) => PushPopRestores

\* C3 witness: a nonzero value went from one register to another through the
\* stack, the stack pointer having wrapped below address 0 on the way.
C3_Witness ==
    /\ PushThenPop /\ prev.a # SP /\ last.a # SP /\ prev.a # last.a
    /\ prev.s.reg[prev.a] = 70 /\ prev.s.reg[SP] = 0 /\ reg[last.a] = 70

\* CALL prev.a ran to completion from a stack pointer in 0..255, with a register
\* operand in 0..7, and the cell at the address it jumped to holds RET
CallToRet ==
    /\ Ran(prev, CALL) /\ last.s.err = "none"
    /\ prev.a \in Regs
    /\ prev.s.reg[SP] >= 0 /\ prev.s.reg[SP] <= LIM
    /\ last.s.pc >= 0 /\ last.s.pc <= RamSize - 1
    /\ last.s.ram[last.s.pc] = RET

\* C4: a CALL whose target instruction is RET is followed by that RET, which
\* returns PC to the address after the CALL and SP to its value before it, for
\* any register operand, any target address and any stack pointer in 0..255.
C4_CallRetReturns ==
    CallToRet =>
        /\ Ran(last, RET) /\ err = "none"
        /\ pc = prev.s.pc + 2
        /\ reg[SP] = prev.s.reg[SP]

\* C5: in either engine an unknown opcode stops the engine: once one was
\* fetched the run loop does not go on.
C5_UnknownOpcodeStops ==
    /\ last.step = "dispatch" => ~loop_condition(cur)
    /\ Printed(m_out, "Instruction not valid") => ~loop_condition(m_cur)

\* C6: CMP a,b sets the flag to EQUAL, LESS_THAN or GREATER_THAN as
\* reg[a mod 8] is equal to, less than or greater than reg[b mod 8]; the three
\* values are distinct; registers and memory stay as they were; PC advances by 3.
C6_CompareSetsFlag ==
    Ran(last, CMP) =>
        LET x == last.s.reg[last.a % 8]
            y == last.s.reg[last.b % 8]
        IN  /\ err = "none"
            /\ Cardinality({HLT, FL_LESS, FL_GREATER}) = 3
            /\ flag \in {<<HLT>>, <<FL_LESS>>, <<FL_GREATER>>}
            /\ (flag = <<HLT>>) <=> (x = y)
            /\ (flag = <<FL_LESS>>) <=> (x < y)
            /\ (flag = <<FL_GREATER>>) <=> (x > y)
            /\ reg = last.s.reg /\ ram = last.s.ram /\ out = last.s.out
            /\ running = last.s.running
            /\ pc = last.s.pc + 3

\* C6 witness: CMP with operand bytes 8 and 9 compared R0 = 0 with R1 = 1 and
\* set LESS_THAN.
C6_Witness ==
    /\ Ran(last, CMP) /\ last.a = 8 /\ last.b = 9
    /\ last.s.reg[0] = 0 /\ last.s.reg[1] = 1 /\ flag = <<FL_LESS>>

\* C7: JEQ a sets PC to reg[a] when the flag is EQUAL and to PC + 2 otherwise;
\* JNE a sets PC to reg[a] when the flag is not EQUAL and to PC + 2 otherwise;
\* neither changes a register, a memory cell or the flag.
C7_ConditionalJumps ==
    /\ Ran(last, JEQ) =>
          /\ err = "none"
          /\ pc = IF last.s.flag = <<HLT>> THEN reg_get(last.s, last.a)
                  ELSE last.s.pc + 2
          /\ reg = last.s.reg /\ ram = last.s.ram /\ flag = last.s.flag
    /\ Ran(last, JNE) =>
          /\ err = "none"
          /\ pc = IF last.s.flag # <<HLT>> THEN reg_get(last.s, last.a)
                  ELSE last.s.pc + 2
          /\ reg = last.s.reg /\ ram = last.s.ram /\ flag = last.s.flag

\* C8: the extended engine starts RUNNING; running is cleared only by HLT, which
\* changes nothing else; a run that ended, by HLT or by an error, changes no
\* register, memory cell, PC, flag or output again.
C8_HaltedIsAbsorbing ==
    /\ (err = "none" => running = TRUE)
    /\ [][ /\ (running /\ ~running') =>
                (Dispatch(HLT) /\ UNCHANGED <<ram, reg, pc, flag, out, err>>)
           /\ ~loop_condition(cur) =>
                UNCHANGED <<ram, reg, pc, flag, out, err, running>> ]_vars

\* C8 witness: the engine has halted by HLT after printing.
C8_Witness == ~running /\ Ran(last, HLT) /\ out # <<>> /\ err = "none"

\* the lines a run has written, given everything written since construction and
\* a load that returned: load wrote one line first when len(sys.argv) was not 2
Emitted(lines) == IF Len(argv) # 2 THEN Tail(lines) ELSE lines

\* the file of bytes was found and loaded
LoadedProgram(bytes) == file_found /\ program = Lines(bytes)

\* C9: LDI R0,5; PUSH R0; LDI R0,0; POP R0; PRN R0; HLT prints 5 and halts, in
\* the extended and in the minimal engine: a run of it that ended has halted
\* with the output 5.
C9_PushPopPrintsFive ==
    LoadedProgram(ProgPushPop) =>
        /\ ~loop_condition(cur) =>
               (~running /\ err = "none" /\ Emitted(out) = <<"5">>)
        /\ ~loop_condition(m_cur) =>
               (~m_running /\ m_err = "none" /\ Emitted(m_out) = <<"5">>)

\* C10: the DEC loop program reaches HALTED in the extended engine with the
\* single line 0 as its output: a run of it that ended has halted with output 0.
C10_DecLoopHalts ==
    (LoadedProgram(ProgDecLoop) /\ ~loop_condition(cur)) =>
        (~running /\ err = "none" /\ Emitted(out) = <<"0">>)

\* CPU.run is a plain while loop: an iteration that can run does run
SpecFair == Spec /\ WF_vars(Next)

\* C11: LDI R0,8; LDI R1,9; ADD R0,R1; PRN R0; HLT in a fresh extended engine
\* writes nothing but the line 17 and reaches HALTED with reg[0] = 17.
C11_AddPrintsSeventeen ==
    /\ [](LoadedProgram(ProgAdd) => Emitted(out) \in {<<>>, <<"17">>})
    /\ LoadedProgram(ProgAdd) ~>
           (~running /\ err = "none" /\ Emitted(out) = <<"17">> /\ reg[0] = 17)

\* C11 witness: the program has halted having printed 17.
C11_Witness ==
    /\ LoadedProgram(ProgAdd) /\ ~running /\ Ran(last, HLT)
    /\ Emitted(out) = <<"17">> /\ reg[0] = 17 /\ reg[1] = 9

(* ---- LDI over operands wider than a byte ---- *)

\* largest register operand and largest immediate the LDI check loads
MaxIndex == 1000
MaxValue == 1000

\* LDI i,v as the loader stores it (int(line, 2) keeps values above 255),
\* after LDI R1,77, so that a register other than the target is not zero
LdiProg(i, v) == <<LDI, 1, 77, LDI, i, v>>

\* operands at the edges of the register file, of a byte and of the range
IndexEdges == {0, 1, 7, 8, 9, 255, 256, MaxIndex}
ValueEdges == {0, 1, 255, 256, 257, 511, 512, MaxValue}

\* every register operand with the edge immediates and every immediate with
\* the edge register operands: ldi masks the two independently
LdiInputs ==
    ((0..MaxIndex) \X ValueEdges) \cup (IndexEdges \X (0..MaxValue))

\* the engine has run LDI R1,77 and is about to run the LDI under test
InitLdi ==
    \E iv \in LdiInputs :
        /\ program = Lines(LdiProg(iv[1], iv[2]))
        /\ file_found = TRUE /\ argv = ArgvRun
        /\ \E s0 \in {load(init_cpu, program, file_found, argv)} :
              /\ ram = s0.ram /\ prev = NoStep(s0)
              /\ last = [step |-> "exec", ir |-> IR(s0), a |-> fetch_a(s0),
                         b |-> fetch_b(s0), s |-> s0]
              /\ \E s1 \in {ldi(s0, fetch_a(s0), fetch_b(s0))} :
                    /\ reg = s1.reg /\ pc = s1.pc /\ running = s1.running
                    /\ flag = s1.flag /\ out = s1.out /\ err = s1.err
        /\ \E m \in {m_load(m_init_cpu, program, file_found, argv)} :
              /\ m_ram = m.ram /\ m_reg = m.reg /\ m_pc = m.pc
              /\ m_running = m.running /\ m_out = m.out /\ m_err = m.err
        /\ m_started = FALSE

SpecLdi == InitLdi /\ [][Ldi]_vars

\* C12: LDI with register operand i and immediate v, for i and v in 0..1000,
\* leaves reg[i mod 8] = v mod 256, does not fail and changes no other register.
C12_LdiMasks ==
    (Ran(last, LDI) /\ last.s.pc = 3) =>
        /\ err = "none"
        /\ reg[last.a % RegCount] = last.b % RamSize
        /\ \A r \in Regs : r # last.a % RegCount => reg[r] = last.s.reg[r]

\* C12 witness: LDI with register operand 1000 and immediate 1000 has set
\* register 0 to 232 and left register 1 at 77.
C12_Witness ==
    /\ Ran(last, LDI) /\ last.s.pc = 3 /\ last.a = 1000 /\ last.b = 1000
    /\ reg[0] = 232 /\ reg[1] = 77

(* ---- register operands and arithmetic results ---- *)

\* self.branchtable[IR](operand_a, operand_b) for an opcode the table holds
Handler(op, s, operand_a, operand_b) ==
    CASE op = HLT -> halt(s, operand_a, operand_b)
      [] op = LDI -> ldi(s, operand_a, operand_b)
      [] op = PRN -> print(s, operand_a, operand_b)
      [] op = ADD -> add(s, operand_a, operand_b)
      [] op = SUB -> subtract(s, operand_a, operand_b)
      [] op = MUL -> multiply(s, operand_a, operand_b)
      [] op = PUSH -> push(s, operand_a, operand_b)
      [] op = POP -> pop(s, operand_a, operand_b)
      [] op = CALL -> call(s, operand_a, operand_b)
      [] op = RET -> _return(s, operand_a, operand_b)
      [] op = CMP -> compare(s, operand_a, operand_b)
      [] op = JEQ -> jump_if_equal(s, operand_a, operand_b)
      [] op = JNE -> jump_if_not_equal(s, operand_a, operand_b)
      [] op = JMP -> jump(s, operand_a, operand_b)

\* the instructions whose first operand names a register, and those whose
\* second operand names one too
RegisterOps == {LDI, PRN, ADD, SUB, MUL, CMP, PUSH, POP, CALL, JMP, JEQ, JNE}
TwoRegisterOps == {ADD, SUB, MUL, CMP}

\* C13: in the extended engine every instruction with a register operand acts,
\* for any operand byte in 0..255, as it does on register (operand mod 8), and
\* does not fail because of the index.
C13_RegisterOperandsReduced ==
    (/\ last.step = "exec" /\ last.ir \in RegisterOps
     /\ last.a \in 0..LIM /\ last.b \in 0..LIM) =>
        cur = Handler(last.ir, last.s, last.a % RegCount,
                      IF last.ir \in TwoRegisterOps THEN last.b % RegCount
                      ELSE last.b)

\* the result of ADD, SUB or MUL on two register values
Arith(op, x, y) ==
    CASE op = ADD -> x + y
      [] op = SUB -> x - y
      [] op = MUL -> x * y

\* C14: in the extended engine ADD, SUB and MUL on a,b with register values in
\* 0..255 store the sum, difference or product mod 256 in reg[a mod 8] and
\* leave the other registers, memory and the flag unchanged.
C14_ArithmeticMod256 ==
    LET a == last.a % RegCount
        b == last.b % RegCount
        x == last.s.reg[a]
        y == last.s.reg[b]
    IN  (/\ last.step = "exec" /\ last.ir \in {ADD, SUB, MUL}
         /\ x \in 0..LIM /\ y \in 0..LIM) =>
            /\ reg[a] = Arith(last.ir, x, y) % RamSize
            /\ \A r \in Regs : r # a => reg[r] = last.s.reg[r]
            /\ ram = last.s.ram /\ flag = last.s.flag

(* ---- addresses outside memory ---- *)

\* an address of a memory cell
InRange(address) == address \in 0..(RamSize - 1)

\* the iteration r accessed memory at an address outside 0..255: one of the
\* three fetches, the write of PUSH or CALL below the stack pointer, or the
\* read of POP or RET at the stack pointer
OutOfRangeAccess(r) ==
    /\ r.step # "none"
    /\ \/ ~InRange(r.s.pc) \/ ~InRange(r.s.pc + 1) \/ ~InRange(r.s.pc + 2)
       \/ r.step = "exec" /\ r.ir \in {PUSH, CALL} /\ ~InRange(r.s.reg[SP] - 1)
       \/ r.step = "exec" /\ r.ir \in {POP, RET} /\ ~InRange(r.s.reg[SP])

\* C15: in the extended engine an iteration that accesses memory at an address
\* below 0 or above 255 ends in an error that stops the run, with no cell
\* written and no instruction carried out on a wrapped address; this holds for
\* the stack accesses at every stack pointer a fresh engine can reach.
C15_OutOfRangeFailsFast ==
    OutOfRangeAccess(last) =>
        /\ err # "none"
        /\ ram = last.s.ram /\ pc = last.s.pc /\ out = last.s.out
        /\ \A r \in Regs \ {SP} : reg[r] = last.s.reg[r]

(* ---- the pre-fetch of two operand bytes ---- *)

\* the number of operand bytes of an instruction: the top two bits of its
\* opcode, which is what its handler adds to pc, less one
OperandCount(op) == op \div 64

\* C16: in the extended engine the pre-fetch of two operand bytes is harmless
\* for every PC in 0..255: an iteration whose opcode and real operands all lie
\* in memory is not stopped by the fetch (HLT at 254 or 255 halts, a
\* one-operand instruction at 254 executes).
C16_PrefetchHarmless ==
    (/\ last.step = "fetch" /\ InRange(last.s.pc)
     /\ last.s.ram[last.s.pc] \in branchtable) =>
        ~InRange(last.s.pc + OperandCount(last.s.ram[last.s.pc]))

(* ---- the compare flag and the program counter ---- *)

\* the values the flag takes: EQUAL, LESS_THAN, GREATER_THAN
FlagValues == {<<HLT>>, <<FL_LESS>>, <<FL_GREATER>>}

\* C17: the flag of the extended engine is always EQUAL, LESS_THAN or
\* GREATER_THAN, in a fresh engine too: JEQ or JNE, before any CMP as well as
\* after, reads one of the three values and branches or advances PC by 2; a
\* flag that is set is one of the three; and no instruction other than CMP
\* changes the flag.
C17_FlagAlwaysDefined ==
    /\ ((Ran(last, JEQ) \/ Ran(last, JNE)) /\ last.a \in Regs) =>
          /\ last.s.flag \in FlagValues
          /\ err = "none"
          /\ pc \in {last.s.reg[last.a], last.s.pc + 2}
    /\ flag # <<>> => flag \in FlagValues
    /\ (last.step = "exec" /\ last.ir # CMP) => flag = last.s.flag

\* the instructions that leave PC to the run loop's rule, in the extended and
\* in the minimal engine
NonControlOps == {LDI, ADD, SUB, MUL, CMP, PRN, PUSH, POP}
MinNonControlOps == {LDI, PRN, ADD, SUB, MUL, PUSH, POP}

\* C18: an iteration that executes an instruction other than a control-flow
\* instruction leaves PC at its previous value plus 1 + operand count (+3 for
\* LDI, ADD, SUB, MUL, CMP, +2 for PRN, PUSH, POP), in the handlers of the
\* extended engine and in the run loop of the minimal engine.  An instruction
\* stopped by an index out of range has not executed.
C18_PcAdvances ==
    [][ /\ \A op \in NonControlOps :
              (Dispatch(op) /\ last' # last /\ err' # "IndexError") =>
                  pc' = pc + 1 + OperandCount(op)
        /\ \A op \in MinNonControlOps :
              (MinDispatch(op) /\ min_vars' # min_vars /\ m_err' # "IndexError") =>
                  m_pc' = m_pc + 1 + OperandCount(op) ]_vars

(* ---- what writes memory ---- *)

\* the cell self.ram[address] is, for an address the list accepts
Cell(address) == Idx(address, RamSize)

\* C19: while the extended engine runs, memory keeps its 256 cells; an
\* iteration other than PUSH and CALL leaves every cell unchanged; PUSH and
\* CALL change no cell but the one the decremented stack pointer addresses,
\* where PUSH stores the register and CALL the return address.
C19_OnlyPushAndCallWrite ==
    /\ DOMAIN ram = 0..(RamSize - 1)
    /\ (last.step # "none" /\ ~Ran(last, PUSH) /\ ~Ran(last, CALL)) =>
          ram = last.s.ram
    /\ (Ran(last, PUSH) \/ Ran(last, CALL)) =>
          LET top == last.s.reg[SP] - 1
          IN  /\ \A c \in DOMAIN ram :
                    (~AddrOK(top) \/ c # Cell(top)) => ram[c] = last.s.ram[c]
              /\ (Ran(last, PUSH) /\ err = "none") =>
                    ram[Cell(top)] = IF last.a = SP THEN top
                                     ELSE last.s.reg[last.a]
              /\ (Ran(last, CALL) /\ AddrOK(top)) =>
                    ram[Cell(top)] = last.s.pc + 2

\* C19 witness: PUSH from stack pointer 244 has changed cell 243, and only it.
C19_Witness ==
    /\ Ran(last, PUSH) /\ err = "none" /\ last.s.reg[SP] = 244
    /\ ram[243] = 70 /\ last.s.ram[243] = 0
    /\ \A c \in DOMAIN ram : c # 243 => ram[c] = last.s.ram[c]

(* ---- the two engines side by side ---- *)

\* the values LDI loads and the registers the instructions name
SharedVals == {0, 1, 200, 255}
SharedRegs == {0, 1, 7}

\* programs of the instructions both engines have, register operands in 0..7
\* and immediates in 0..255: one operation on two loaded registers, or two
\* operations in a row, then the results printed and HLT
SharedProgs ==
    { <<LDI, 0, x, LDI, r, y, op, a, b, PRN, a, HLT>> :
        x \in SharedVals, y \in SharedVals, r \in {1, 7},
        op \in {ADD, SUB, MUL}, a \in SharedRegs, b \in SharedRegs } \cup
    { <<LDI, 0, x, LDI, 1, y, op, 0, 1, op2, 1, 0, PRN, 0, PRN, 1, HLT>> :
        x \in SharedVals, y \in SharedVals,
        op \in {ADD, SUB, MUL}, op2 \in {ADD, SUB} }

\* two fresh engines with the same program loaded
InitBoth ==
    \E p \in SharedProgs, a \in {ArgvRun, ArgvExtra} : LoadBoth(Loaded(Lines(p), a))

\* one iteration of CPU.run of cpu_additions.py: what the engine becomes and
\* what the iteration was
run_step(s) ==
    IF ~FetchOK(s) THEN Raise(s, "IndexError")
    ELSE IF IR(s) \notin branchtable THEN Raise(s, "KeyError")
    ELSE Handler(IR(s), s, fetch_a(s), fetch_b(s))
run_kind(s) ==
    IF ~FetchOK(s) THEN "fetch"
    ELSE IF IR(s) \notin branchtable THEN "dispatch" ELSE "exec"

\* one iteration of CPU.run of cpu.py
m_run_step(s) == IF ~FetchOK(s) THEN Raise(s, "IndexError") ELSE m_run(s)

\* each engine whose loop still runs does its next iteration
Lockstep ==
    /\ loop_condition(cur) \/ loop_condition(m_cur)
    /\ IF loop_condition(cur) THEN ExtMoves(run_step(cur), run_kind(cur))
       ELSE UNCHANGED ext_vars
    /\ IF loop_condition(m_cur) THEN MinMoves(m_run_step(m_cur))
       ELSE UNCHANGED min_vars
    /\ UNCHANGED env_vars

SpecBoth == InitBoth /\ [][Lockstep]_vars

\* C20: on programs of HLT, LDI, PRN, ADD, SUB, MUL with register operands in
\* 0..7 and immediates in 0..255, started in fresh engines, the minimal and the
\* extended engine have the same registers, memory, PC, running state and
\* output after each instruction.
C20_EnginesAgree ==
    /\ m_reg = reg /\ m_ram = ram /\ m_pc = pc
    /\ m_running = running /\ m_out = out

\* C20 witness: both engines have halted after MUL gave 255 * 255 and ADD
\* added it to the other register, having printed both.
C20_Witness ==
    /\ ~running /\ ~m_running /\ Ran(last, HLT) /\ Ran(prev, PRN)
    /\ reg[0] = 65025 /\ m_reg[0] = 65025 /\ reg[1] = 65280
    /\ m_out = <<"65025", "65280">>

====
